---- MODULE Spec2Model ----
(***************************************************************************)
(* RingPing server: the ringtone router (create / update / delete) over    *)
(* the ringtone table and the public/downloads directory tree.             *)
(*                                                                         *)
(* Two revisions of the router are modelled, selected by `variant`:        *)
(*   "ringtone_ts" : apps/server/src/routers/ringtone.ts (try/catch with   *)
(*                   cleanup, name stored verbatim, always mp3)            *)
(*   "part_011"    : unnamed/part_011 (generateUniqueFileName, audio       *)
(*                   format, no try/catch)                                 *)
(*                                                                         *)
(* File names, paths and urls are sequences of tokens: one-character       *)
(* strings for what the user types, and atoms ("downloads", a user id,     *)
(* "mp3", "trimmed") for the pieces the server concatenates.               *)
(***************************************************************************)
EXTENDS Integers, Sequences, FiniteSets, TLC

VARIABLES variant, db, files, dirs, req, nextId, faults, updates, requested,
          now, createdOrder, page, slider

vars == <<variant, db, files, dirs, req, nextId, faults, updates, requested,
          now, createdOrder, page, slider>>

\* the state of the server
serverVars == <<variant, db, files, dirs, req, nextId, faults, updates, requested,
                now, createdOrder>>

(***************************************************************************)
(* Bounds                                                                  *)
(***************************************************************************)
\* how many ids crypto.randomUUID() hands out in one run
MaxIds == 2

\* how many times the environment may misbehave in one run: a subprocess exits
\* non-zero or leaves no usable file, an insert or an unlink fails
MaxFaults == 1

\* how many update requests rename a record in one run
MaxUpdates == 1

\* request slots (one in-flight request each)
Slots == {1}

\* the slots of the server when requests overlap
ConcSlots == {1, 2}

AllSlots == Slots \cup ConcSlots

Variants == {"ringtone_ts", "part_011"}

Users == {"u1", "u2"}

Ids == 1..MaxIds

(***************************************************************************)
(* Program constants                                                       *)
(***************************************************************************)
MinDuration == 5
MaxDuration == 60
MaxFileNameLen == 50
MinFileNameLen == 1

(***************************************************************************)
(* Inputs the requests are drawn from                                      *)
(***************************************************************************)
LongName == [i \in 1..(MaxFileNameLen + 1) |-> "a"]

FileNames == { <<>>, <<"a">>, <<"A">>, <<"a", "/">>, LongName }

\* names the update requests carry
UpdateNames == { <<>>, <<"A">>, LongName }

StartSecondsInputs == {-1, 2}

DurationSecondsInputs == {MinDuration - 1, MinDuration, MaxDuration, MaxDuration + 1}

NoVideoDuration == [present |-> FALSE, value |-> 0]

VideoDurationInputs ==
    {NoVideoDuration} \cup
    { [present |-> TRUE, value |-> v] : v \in {-1, 0, 6, 7} }

AudioFormats == {"mp3", "wav"}

TheUrl == "https://valid.example/watch?v=abc"

ExitCodes == {0, 1, 2}

\* what a subprocess printed on stderr
Stderrs == {"", "ERROR: Video unavailable"}

\* how a subprocess ends: its exit code and its stderr text
ToolOutcomes ==
    { [exitCode |-> e, stderr |-> t] : e \in ExitCodes, t \in Stderrs }

\* what yt-dlp left at the path it was told to write; part_011 never looks at
\* the size of the download, so an empty file is there like any other
ToolWrites(v) == IF v = "ringtone_ts" THEN {"none", "empty", "audio"} ELSE {"none", "audio"}

\* what ffmpeg left at the trimmed path
TrimWrites == {"none", "audio"}

(***************************************************************************)
(* Strings                                                                 *)
(***************************************************************************)
ForbiddenChars == {"<", ">", ":", "\"", "/", "\\", "|", "?", "*"}

\* String.prototype.toLowerCase on one character
LowerChar(c) == IF c = "A" THEN "a" ELSE c

toLowerCase(s) == [i \in 1..Len(s) |-> LowerChar(s[i])]

DigitChar(d) == CASE d = 0 -> "0" [] d = 1 -> "1" [] d = 2 -> "2" [] d = 3 -> "3"
                  [] d = 4 -> "4" [] d = 5 -> "5" [] d = 6 -> "6" [] d = 7 -> "7"
                  [] d = 8 -> "8" [] d = 9 -> "9"

\* `${counter}` for a positive integer
RECURSIVE NumberToString(_)
NumberToString(n) ==
    IF n < 10 THEN <<DigitChar(n)>>
    ELSE NumberToString(n \div 10) \o <<DigitChar(n % 10)>>

(***************************************************************************)
(* Paths (relative to process.cwd())                                       *)
(***************************************************************************)
\* the segments of a path between its "/" separators
RECURSIVE Segments(_)
Segments(p) ==
    IF \A i \in 1..Len(p) : p[i] # "/" THEN <<p>>
    ELSE LET i == CHOOSE k \in 1..Len(p) :
                      p[k] = "/" /\ \A j \in 1..(k - 1) : p[j] # "/"
         IN <<SubSeq(p, 1, i - 1)>> \o Segments(SubSeq(p, i + 1, Len(p)))

\* path.normalize on the segments of a relative path: "" and "." are dropped,
\* ".." removes the segment before it
RECURSIVE ResolveSegments(_, _)
ResolveSegments(segs, out) ==
    IF segs = <<>> THEN out
    ELSE LET s == Head(segs) IN
         IF s = <<>> \/ s = <<".">> THEN ResolveSegments(Tail(segs), out)
         ELSE IF s = <<".", ".">> /\ out # <<>> /\ out[Len(out)] # <<".", ".">>
         THEN ResolveSegments(Tail(segs), SubSeq(out, 1, Len(out) - 1))
         ELSE ResolveSegments(Tail(segs), Append(out, s))

RECURSIVE JoinSegments(_)
JoinSegments(segs) ==
    IF segs = <<>> THEN <<>>
    ELSE IF Len(segs) = 1 THEN segs[1]
    ELSE segs[1] \o <<"/">> \o JoinSegments(Tail(segs))

\* path.join(a, b): the two joined with "/" and normalized
PathJoin(a, b) == JoinSegments(ResolveSegments(Segments(a \o <<"/">> \o b), <<>>))

OutputDir(userId) == <<"public", "/", "downloads", "/", userId>>

\* path.join(outputDir, `${fileName}.${fmt}`)
OutputPath(userId, fileName, fmt) ==
    PathJoin(OutputDir(userId), fileName \o <<".", fmt>>)

DownloadUrl(userId, fileName, fmt) ==
    <<"/", "downloads", "/", userId, "/">> \o fileName \o <<".", fmt>>

\* outputPath.replace(/\.mp3$/, ".trimmed.mp3")
TrimmedPath(outputPath, fmt) ==
    LET n == Len(outputPath) IN
    IF n >= 2 /\ outputPath[n - 1] = "." /\ outputPath[n] = fmt
    THEN SubSeq(outputPath, 1, n - 2) \o <<".", "trimmed", ".", fmt>>
    ELSE outputPath

\* path.join(process.cwd(), "public", ringtoneData.downloadUrl)
DeleteFilePath(downloadUrl) == PathJoin(<<"public">>, downloadUrl)

(***************************************************************************)
(* File system                                                             *)
(***************************************************************************)
Exists(fs, p) == p \in DOMAIN fs

WriteFile(fs, p, what) ==
    IF what = "none" THEN fs
    ELSE [q \in DOMAIN fs \cup {p} |-> IF q = p THEN what ELSE fs[q]]

\* RemoveFile leaving the file where it is
RemoveFileKeeps(fs, p) == fs

RemoveFile(fs, p) == [q \in DOMAIN fs \ {p} |-> fs[q]]

\* fs.rename(from, to), from exists
RenameFile(fs, from, to) ==
    [q \in (DOMAIN fs \ {from}) \cup {to} |-> IF q = to THEN fs[from] ELSE fs[q]]

(***************************************************************************)
(* Requests                                                                *)
(***************************************************************************)
NoInput ==
    [id |-> 0, url |-> "", startSeconds |-> 0, durationSeconds |-> 0,
     fileName |-> <<>>, videoDuration |-> NoVideoDuration, audioFormat |-> "mp3"]

NoResult == [kind |-> "none", code |-> "", downloadUrl |-> <<>>]

OkDownload(url) == [kind |-> "ok", code |-> "", downloadUrl |-> url]

OkSuccess == [kind |-> "ok", code |-> "success", downloadUrl |-> <<>>]

ORPCError(code) == [kind |-> "error", code |-> code, downloadUrl |-> <<>>]

\* the answer of getVideoInfo; thumbnail is a string or null
NoInfo ==
    [title |-> <<>>, duration |-> 0, thumbnail |-> [present |-> FALSE, value |-> <<>>],
     uploader |-> <<>>]

OkInfo == [kind |-> "ok", code |-> "info", downloadUrl |-> <<>>]

IdleReq ==
    [op |-> "idle", pc |-> "idle", user |-> "", input |-> NoInput,
     ringtoneId |-> 0, fileName |-> <<>>, outputPath |-> <<>>,
     trimmedPath |-> <<>>, downloadUrl |-> <<>>, endSeconds |-> 0,
     result |-> NoResult,
     \* history of the request
     spawns |-> <<>>, wrote |-> {}, removed |-> {}, inserted |-> 0, madeDir |-> FALSE,
     failed |-> "",
     \* how the subprocesses ended, the Error thrown inside the handler, what
     \* console.error logged, and the message of the error the client receives
     \* (empty for an error the framework raises: schema failure, uncaught error)
     exits |-> <<>>, thrown |-> <<>>, log |-> <<>>, message |-> <<>>,
     \* whether the unlink in create's catch block threw ("Cleanup error:")
     cleanupError |-> FALSE,
     \* getVideoInfo: the fields yt-dlp printed, the text the handler read
     \* from its stdout, and the object the handler returns
     printed |-> <<>>, stdout |-> <<>>, info |-> NoInfo,
     \* getRingtones: the rows the handler returns, in their order, and (history)
     \* the ids whose delete had removed the row and was still in flight then
     userRingtones |-> <<>>, deleting |-> {}]

\* the create page as it mounts: useState("") and useState(null), no timer
\* set and no getVideoInfo call in flight, nothing submitted
NoPageInfo == [present |-> FALSE, value |-> NoInfo]

NoSubmit == [present |-> FALSE, url |-> <<>>, videoDuration |-> NoVideoDuration]

InitialPage ==
    [videoUrl |-> <<>>, videoInfo |-> NoPageInfo, pending |-> {}, changes |-> 0,
     submitted |-> NoSubmit]

\* no call of onChange yet
NoOnChange == [present |-> FALSE, start |-> 0, end |-> 0]

\* the page shows no TimeRangeSlider while videoInfo is null
NoSlider ==
    [rev |-> "", maxDuration |-> 0, localValues |-> <<0, 0>>, handler |-> "",
     onChange |-> NoOnChange]

Init ==
    /\ page = InitialPage
    /\ slider = NoSlider
    /\ variant \in Variants
    /\ db = {}
    /\ files = <<>>
    /\ dirs = {}
    /\ req = [r \in AllSlots |-> IdleReq]
    /\ nextId = 1
    /\ faults = 0
    /\ updates = 0
    /\ requested = <<>>
    /\ now = 0
    /\ createdOrder = <<>>

(***************************************************************************)
(* Request validation (zod input schemas)                                  *)
(***************************************************************************)
\* z.string().min(1).max(50)
FileNameSchema(fileName) ==
    /\ Len(fileName) >= MinFileNameLen
    /\ Len(fileName) <= MaxFileNameLen

\* CreateSchema without the lower bound on durationSeconds
CreateSchemaNoMinDuration(inp) ==
    /\ inp.startSeconds >= 0
    /\ inp.durationSeconds <= MaxDuration
    /\ FileNameSchema(inp.fileName)

\* createRingtone .input(z.object({...}))
CreateSchema(inp) ==
    /\ inp.startSeconds >= 0
    /\ inp.durationSeconds >= MinDuration
    /\ inp.durationSeconds <= MaxDuration
    /\ FileNameSchema(inp.fileName)

\* JavaScript truthiness of `videoDuration` (undefined and 0 are falsy)
Truthy(vd) == vd.present /\ vd.value # 0

\* EndExceedsVideo comparing the start instead of the end
EndExceedsVideoUsesStart(inp) ==
    /\ Truthy(inp.videoDuration)
    /\ inp.startSeconds > inp.videoDuration.value

\* if (videoDuration && endSeconds > videoDuration)
EndExceedsVideo(inp) ==
    /\ Truthy(inp.videoDuration)
    /\ inp.startSeconds + inp.durationSeconds > inp.videoDuration.value

\* EndSeconds forgetting the start of the section
EndSecondsIsDuration(inp) == inp.durationSeconds

\* const endSeconds = startSeconds + durationSeconds
EndSeconds(inp) == inp.startSeconds + inp.durationSeconds

\* if (videoDuration && startSeconds >= videoDuration)
StartExceedsVideo(inp) ==
    /\ Truthy(inp.videoDuration)
    /\ inp.startSeconds >= inp.videoDuration.value

(***************************************************************************)
(* Uniqueness resolution (part_011)                                        *)
(***************************************************************************)
\* ExistingSet counting the names of the owner's creates in flight as taken
ExistingSetCountsInFlight(rows, userId) ==
    { toLowerCase(row.fileName) : row \in { x \in rows : x.userId = userId } } \cup
    { toLowerCase(req[r].fileName) :
         r \in { s \in AllSlots : /\ req[s].op = "create"
                                  /\ req[s].user = userId
                                  /\ req[s].pc \in {"downloading", "trimming",
                                                    "persisting"} } }

\* the owner's stored names, lower-cased
ExistingSet(rows, userId) ==
    { toLowerCase(row.fileName) : row \in { x \in rows : x.userId = userId } }

\* the while loop of generateUniqueFileName, entered with `counter`
RECURSIVE ProbeUniqueName(_, _, _)
ProbeUniqueName(baseName, existingSet, counter) ==
    LET uniqueName == baseName \o <<" ">> \o NumberToString(counter) IN
    IF toLowerCase(uniqueName) \in existingSet
    THEN ProbeUniqueName(baseName, existingSet, counter + 1)
    ELSE uniqueName

\* generateUniqueFileName looking the base name up without lower-casing it
generateUniqueFileNameCaseSensitive(baseName, userId, rows) ==
    LET existingSet == ExistingSet(rows, userId) IN
    IF baseName \notin { row.fileName : row \in { x \in rows : x.userId = userId } }
    THEN baseName
    ELSE ProbeUniqueName(baseName, existingSet, 1)

generateUniqueFileName(baseName, userId, rows) ==
    LET existingSet == ExistingSet(rows, userId) IN
    IF toLowerCase(baseName) \notin existingSet
    THEN baseName
    ELSE ProbeUniqueName(baseName, existingSet, 1)

\* the name the create / update handler stores for a requested name
ResolveFileName(v, fileName, userId, rows) ==
    IF v = "part_011" THEN generateUniqueFileName(fileName, userId, rows)
    ELSE fileName

(***************************************************************************)
(* create                                                                  *)
(***************************************************************************)
\* the request of the spec's end-to-end example, shortened
BaseInput ==
    [id |-> 0, url |-> TheUrl, startSeconds |-> 2, durationSeconds |-> MinDuration,
     fileName |-> <<"a">>, videoDuration |-> NoVideoDuration, audioFormat |-> "mp3"]

\* the base request with one field varied over its input set
CreateInputs(v) ==
    { [BaseInput EXCEPT !.fileName = f] : f \in FileNames } \cup
    { [BaseInput EXCEPT !.startSeconds = s] : s \in StartSecondsInputs } \cup
    { [BaseInput EXCEPT !.durationSeconds = d] : d \in DurationSecondsInputs } \cup
    { [BaseInput EXCEPT !.videoDuration = vd] : vd \in VideoDurationInputs } \cup
    { [BaseInput EXCEPT !.audioFormat = a] :
         a \in IF v = "part_011" THEN AudioFormats ELSE {"mp3"} }

\* the inputs of CreateInputs the handler turns away before it does anything
RejectedInputs(v) ==
    { inp \in CreateInputs(v) : ~CreateSchema(inp) \/ EndExceedsVideo(inp) }

\* the n-th create request of a run: the first user opens the run with any
\* input and afterwards repeats the base request or sends one the handler
\* rejects; the second user may open the run with the base request
CreateRequests(v, n) ==
    { [user |-> "u1", input |-> inp] :
         inp \in IF n = 1 THEN CreateInputs(v)
                 ELSE {BaseInput} \cup RejectedInputs(v) } \cup
    { [user |-> "u2", input |-> inp] : inp \in IF n = 1 THEN {BaseInput} ELSE {} }

\* message of the error create answers with
CreateFailedMessage == <<"Failed to create ringtone. Check URL and try again.">>

\* `${tool} failed with exit code ${exitCode}: ${stderr}`
ToolFailedError(prefix, exitCode, stderr) ==
    <<prefix>> \o NumberToString(exitCode) \o <<": ", stderr>>

Finish(r, request, res) ==
    req' = [req EXCEPT ![r] =
              [request EXCEPT !.pc = IF res.kind = "ok" THEN "done" ELSE "error",
                              !.result = res]]

\* the environment misbehaves `n` more times, within the budget of the run
Fault(n) ==
    /\ faults + n <= MaxFaults
    /\ faults' = faults + n

\* CatchCleanup passing the caught error's text on to the client
CatchCleanupRethrows(r, request, fs, unlinkOk, n) ==
    LET there == Exists(fs, request.outputPath)
        gone  == there /\ unlinkOk
    IN /\ there \/ unlinkOk
       /\ Fault(IF n > 0 THEN n ELSE IF there /\ ~unlinkOk THEN 1 ELSE 0)
       /\ files' = IF gone THEN RemoveFile(fs, request.outputPath) ELSE fs
       /\ Finish(r, [request EXCEPT !.removed =
                                       IF gone THEN @ \cup {request.outputPath} ELSE @,
                                   !.log = request.thrown,
                                   !.cleanupError = ~gone,
                                   !.message = request.thrown],
                 ORPCError("INTERNAL_SERVER_ERROR"))

\* catch block of ringtone.ts create: best-effort unlink of outputPath, then
\* the generic error.  unlinkOk: whether fs.unlink succeeds on an existing file;
\* n: the misbehaviour that led here (a cleanup that fails on top of it belongs
\* to the same misbehaving request and is not counted again).
CatchCleanup(r, request, fs, unlinkOk, n) ==
    LET there == Exists(fs, request.outputPath)
        gone  == there /\ unlinkOk
    IN /\ there \/ unlinkOk
       /\ Fault(IF n > 0 THEN n ELSE IF there /\ ~unlinkOk THEN 1 ELSE 0)
       /\ files' = IF gone THEN RemoveFile(fs, request.outputPath) ELSE fs
       /\ Finish(r, [request EXCEPT !.removed =
                                       IF gone THEN @ \cup {request.outputPath} ELSE @,
                                   !.log = request.thrown,
                                   !.cleanupError = ~gone,
                                   !.message = CreateFailedMessage],
                 ORPCError("INTERNAL_SERVER_ERROR"))

\* part_011 has no try/catch: the error leaves the handler as it is (the
\* ORPCError of a failed download with its message, any other error as the
\* framework's internal error, whose message is not part of this source)
ThrowNoCleanup(r, request, fs, unlinkOk, n) ==
    /\ unlinkOk
    /\ Fault(n)
    /\ files' = fs
    /\ Finish(r, [request EXCEPT !.message = IF request.failed = "yt-dlp"
                                            THEN CreateFailedMessage ELSE @],
              ORPCError("INTERNAL_SERVER_ERROR"))

Fail(r, request, fs, unlinkOk, n) ==
    IF variant = "ringtone_ts" THEN CatchCleanup(r, request, fs, unlinkOk, n)
    ELSE ThrowNoCleanup(r, request, fs, unlinkOk, n)

\* the step goes on to `pc`
Proceed(r, request, fs, pc, unlinkOk, n) ==
    /\ unlinkOk
    /\ Fault(n)
    /\ files' = fs
    /\ req' = [req EXCEPT ![r] = [request EXCEPT !.pc = pc]]

\* input validation, videoDuration checks, name resolution, mkdir, paths
CreateStart(r, userId, inp) ==
    /\ req[r].pc = "idle"
    /\ nextId <= MaxIds
    /\ LET base == [IdleReq EXCEPT !.op = "create", !.user = userId, !.input = inp] IN
       IF ~CreateSchema(inp) \/ EndExceedsVideo(inp) \/ StartExceedsVideo(inp)
       THEN /\ Finish(r, [base EXCEPT !.message =
                             IF ~CreateSchema(inp) THEN <<>>
                             ELSE IF EndExceedsVideo(inp)
                             THEN <<"End time cannot exceed video duration">>
                             ELSE <<"Start time cannot be greater than or equal to video duration">>],
                      ORPCError("BAD_REQUEST"))
            /\ UNCHANGED <<now, createdOrder, page, slider, variant, db, files, dirs, nextId, faults, updates, requested>>
       ELSE LET fmt  == IF variant = "part_011" THEN inp.audioFormat ELSE "mp3"
                name == ResolveFileName(variant, inp.fileName, userId, db)
                out  == OutputPath(userId, name, fmt)
            IN /\ req' = [req EXCEPT ![r] =
                    [base EXCEPT !.pc = "downloading",
                                 !.ringtoneId = nextId,
                                 !.fileName = name,
                                 !.endSeconds = EndSeconds(inp),
                                 !.outputPath = out,
                                 !.trimmedPath = TrimmedPath(out, fmt),
                                 !.downloadUrl = DownloadUrl(userId, name, fmt),
                                 !.madeDir = TRUE]]
               /\ dirs' = dirs \cup {userId}
               /\ nextId' = nextId + 1
               /\ now' = now + 1
               /\ UNCHANGED <<createdOrder, page, slider, variant, db, files, faults, updates, requested>>

\* yt-dlp runs, then (ringtone.ts) fs.stat + the ffprobe of the download
CreateDownload(r, exitCode, stderr, wroteWhat, unlinkOk) ==
    /\ req[r].op = "create"
    /\ req[r].pc = "downloading"
    /\ LET me  == req[r]
           fs1 == WriteFile(files, me.outputPath, wroteWhat)
           ran == [me EXCEPT !.spawns = Append(@, "yt-dlp"),
                             !.exits = Append(@, [tool |-> "yt-dlp",
                                                  exitCode |-> exitCode,
                                                  stderr |-> stderr]),
                             !.wrote = IF wroteWhat = "none" THEN @
                                       ELSE @ \cup {me.outputPath}]
           n   == IF exitCode # 0 \/ wroteWhat # "audio" THEN 1 ELSE 0
       IN IF exitCode # 0
          THEN Fail(r, [ran EXCEPT !.failed = "yt-dlp",
                                   !.thrown = ToolFailedError("yt-dlp failed with exit code ",
                                                              exitCode, stderr)],
                    fs1, unlinkOk, n)
          ELSE IF variant = "ringtone_ts"
          THEN IF ~Exists(fs1, me.outputPath)
               THEN CatchCleanup(r, [ran EXCEPT !.failed = "stat",
                                                !.thrown = <<"ENOENT: no such file or directory">>],
                                 fs1, unlinkOk, n)
               ELSE IF fs1[me.outputPath] = "empty"
               THEN CatchCleanup(r, [ran EXCEPT !.failed = "empty",
                                                !.thrown = <<"Generated file is empty">>],
                                 fs1, unlinkOk, n)
               ELSE Proceed(r, [ran EXCEPT !.spawns = Append(@, "ffprobe")], fs1,
                            "trimming", unlinkOk, n)
          ELSE Proceed(r, ran, fs1, "trimming", unlinkOk, n)
    /\ UNCHANGED <<now, createdOrder, page, slider, variant, db, dirs, nextId, updates, requested>>

\* await fs.unlink(outputPath); await fs.rename(trimmedPath, outputPath)
\* ok, or thrown, with the file system as it is then
ReplaceWithTrimmed(fs, outputPath, trimmedPath) ==
    IF ~Exists(fs, outputPath) THEN [ok |-> FALSE, fs |-> fs]
    ELSE LET fs1 == RemoveFile(fs, outputPath) IN
         IF ~Exists(fs1, trimmedPath) THEN [ok |-> FALSE, fs |-> fs1]
         ELSE [ok |-> TRUE, fs |-> RenameFile(fs1, trimmedPath, outputPath)]

\* ffmpeg runs, then the trimmed file replaces the download
CreateTrim(r, exitCode, stderr, wroteWhat, unlinkOk) ==
    /\ req[r].op = "create"
    /\ req[r].pc = "trimming"
    /\ LET me  == req[r]
           fs1 == WriteFile(files, me.trimmedPath, wroteWhat)
           ran == [me EXCEPT !.spawns = Append(@, "ffmpeg"),
                             !.exits = Append(@, [tool |-> "ffmpeg",
                                                  exitCode |-> exitCode,
                                                  stderr |-> stderr]),
                             !.wrote = IF wroteWhat = "none" THEN @
                                       ELSE @ \cup {me.trimmedPath}]
           rep == ReplaceWithTrimmed(fs1, me.outputPath, me.trimmedPath)
           moved == [ran EXCEPT !.removed = IF Exists(fs1, me.outputPath)
                                            THEN @ \cup {me.outputPath} ELSE @,
                                !.wrote = IF rep.ok THEN @ \cup {me.outputPath} ELSE @]
           n   == IF exitCode # 0 \/ wroteWhat # "audio" THEN 1 ELSE 0
       IN IF variant = "ringtone_ts"
          THEN IF exitCode # 0
               THEN CatchCleanup(r, [ran EXCEPT !.failed = "ffmpeg",
                                                !.thrown = ToolFailedError(
                                                    "ffmpeg trimming failed with exit code ",
                                                    exitCode, stderr)],
                                 fs1, unlinkOk, n)
               ELSE IF ~rep.ok
               THEN CatchCleanup(r, [moved EXCEPT !.spawns = Append(@, "ffprobe"),
                                                  !.failed = "replace",
                                                  !.thrown = <<"ENOENT: no such file or directory">>],
                                 rep.fs, unlinkOk, n)
               ELSE Proceed(r, [moved EXCEPT !.spawns = Append(@, "ffprobe")], rep.fs,
                            "persisting", unlinkOk, n)
          ELSE IF exitCode # 0
               THEN Proceed(r, [ran EXCEPT !.failed = "ffmpeg"], fs1, "persisting",
                            unlinkOk, n)
               ELSE IF ~rep.ok
               THEN ThrowNoCleanup(r, [moved EXCEPT !.failed = "replace"], rep.fs,
                                   unlinkOk, n)
               ELSE Proceed(r, moved, rep.fs, "persisting", unlinkOk, n)
    /\ UNCHANGED <<now, createdOrder, page, slider, variant, db, dirs, nextId, updates, requested>>

\* the columns the insert does not name get their defaults: createdAt and
\* updatedAt are $defaultFn(() => new Date()), stored in whole seconds (mode
\* "timestamp")
InsertDefaults(values, date) ==
    [createdAt |-> date, updatedAt |-> date, id |-> values.id, fileName |-> values.fileName,
     originalUrl |-> values.originalUrl, startTime |-> values.startTime,
     endTime |-> values.endTime, downloadUrl |-> values.downloadUrl,
     userId |-> values.userId]

\* NewRow storing the duration as the end time
NewRowEndIsDuration(me) ==
    [id |-> me.ringtoneId, fileName |-> me.fileName, originalUrl |-> me.input.url,
     startTime |-> me.input.startSeconds, endTime |-> me.input.durationSeconds,
     downloadUrl |-> me.downloadUrl, userId |-> me.user]

\* the row db.insert(ringtone).values({...}) writes
NewRow(me) ==
    [id |-> me.ringtoneId, fileName |-> me.fileName, originalUrl |-> me.input.url,
     startTime |-> me.input.startSeconds, endTime |-> me.endSeconds,
     downloadUrl |-> me.downloadUrl, userId |-> me.user]

\* CreateInsert answering { downloadUrl } although the insert failed
CreateInsertSwallowsFailure(r, insertOk, unlinkOk) ==
    /\ req[r].op = "create"
    /\ req[r].pc = "persisting"
    /\ unlinkOk
    /\ LET me == req[r] IN
       IF insertOk
       THEN /\ db' = db \cup {InsertDefaults(NewRow(me), now)}
            /\ createdOrder' = Append(createdOrder, me.ringtoneId)
            /\ requested' = [i \in DOMAIN requested \cup {me.ringtoneId} |->
                               IF i = me.ringtoneId THEN me.input.fileName
                               ELSE requested[i]]
            /\ faults' = faults
            /\ Finish(r, [me EXCEPT !.inserted = @ + 1], OkDownload(me.downloadUrl))
       ELSE /\ UNCHANGED <<db, requested, createdOrder>>
            /\ Fault(1)
            /\ Finish(r, [me EXCEPT !.failed = "insert"], OkDownload(me.downloadUrl))
    /\ UNCHANGED <<now, page, slider, variant, files, dirs, nextId, updates>>

\* db.insert, then return { downloadUrl }
CreateInsert(r, insertOk, unlinkOk) ==
    /\ req[r].op = "create"
    /\ req[r].pc = "persisting"
    /\ LET me == req[r] IN
       IF insertOk
       THEN /\ unlinkOk
            /\ db' = db \cup {InsertDefaults(NewRow(me), now)}
            /\ createdOrder' = Append(createdOrder, me.ringtoneId)
            /\ requested' = [i \in DOMAIN requested \cup {me.ringtoneId} |->
                               IF i = me.ringtoneId THEN me.input.fileName
                               ELSE requested[i]]
            /\ files' = files
            /\ faults' = faults
            /\ Finish(r, [me EXCEPT !.inserted = @ + 1], OkDownload(me.downloadUrl))
       ELSE /\ UNCHANGED <<db, requested, createdOrder>>
            /\ Fail(r, [me EXCEPT !.failed = "insert",
                                   !.thrown = <<"SQLITE_ERROR">>],
                    files, unlinkOk, 1)
    /\ UNCHANGED <<now, page, slider, variant, dirs, nextId, updates>>

(***************************************************************************)
(* update                                                                  *)
(***************************************************************************)
UpdateInput(id, fileName) == [NoInput EXCEPT !.id = id, !.fileName = fileName]

\* every user renames every id to a valid name; the names the schema rejects
\* come from the first user for the first id (the schema runs before the lookup)
UpdateRequests ==
    { [user |-> u, id |-> i, fileName |-> f] :
         u \in Users, i \in Ids, f \in { x \in UpdateNames : FileNameSchema(x) } } \cup
    { [user |-> "u1", id |-> 1, fileName |-> f] : f \in UpdateNames }

\* db.select().from(ringtone).where(eq(ringtone.id, id)).limit(1)
SelectById(rows, id) == { row \in rows : row.id = id }

\* SetFileName rewriting the download url after the new name as well
SetFileNameAndUrl(rows, id, fileName, date) ==
    { IF row.id = id
      THEN [row EXCEPT !.fileName = fileName, !.updatedAt = date,
                       !.downloadUrl = DownloadUrl(row.userId, fileName, "mp3")]
      ELSE row : row \in rows }

\* db.update(ringtone).set({ fileName, updatedAt: new Date() })
\*   .where(eq(ringtone.id, id))
SetFileName(rows, id, fileName, date) ==
    { IF row.id = id THEN [row EXCEPT !.fileName = fileName, !.updatedAt = date]
      ELSE row : row \in rows }

\* UpdateForbidden with the ownership check left out
UpdateForbiddenNever(existingRingtone, userId) == FALSE

\* if (existingRingtone[0].userId !== userId) in updateRingtone
UpdateForbidden(existingRingtone, userId) ==
    \E row \in existingRingtone : row.userId # userId

updateRingtone(r, userId, id, fileName) ==
    /\ req[r].pc = "idle"
    /\ LET base == [IdleReq EXCEPT !.op = "update", !.user = userId,
                                   !.input = UpdateInput(id, fileName)]
           existingRingtone == SelectById(db, id)
       IN IF ~FileNameSchema(fileName)
          THEN /\ UNCHANGED <<db, updates>>
               /\ Finish(r, base, ORPCError("BAD_REQUEST"))
          ELSE IF existingRingtone = {}
          THEN /\ UNCHANGED <<db, updates>>
               /\ Finish(r, [base EXCEPT !.message = <<"Ringtone not found">>],
                         ORPCError("NOT_FOUND"))
          ELSE IF UpdateForbidden(existingRingtone, userId)
          THEN /\ UNCHANGED <<db, updates>>
               /\ Finish(r, [base EXCEPT !.message =
                                <<"You can only update your own ringtones">>],
                         ORPCError("FORBIDDEN"))
          ELSE LET name == ResolveFileName(variant, fileName, userId, db) IN
               /\ updates < MaxUpdates
               /\ updates' = updates + 1
               /\ db' = SetFileName(db, id, name, now)
               /\ Finish(r, [base EXCEPT !.fileName = name], OkSuccess)
    /\ UNCHANGED <<now, createdOrder, page, slider, variant, files, dirs, nextId, faults, requested>>

(***************************************************************************)
(* delete                                                                  *)
(***************************************************************************)
\* DeleteForbidden with the ownership check left out
DeleteForbiddenNever(existingRingtone, userId) == FALSE

\* if (existingRingtone[0].userId !== userId) in deleteRingtone
DeleteForbidden(existingRingtone, userId) ==
    \E row \in existingRingtone : row.userId # userId

\* DeleteById leaving the row in the table
DeleteByIdNothing(rows, id) == rows

\* db.delete(ringtone).where(eq(ringtone.id, id))
DeleteById(rows, id) == { row \in rows : row.id # id }

\* select, ownership checks, db.delete
DeleteRow(r, userId, id) ==
    /\ req[r].pc = "idle"
    /\ LET base == [IdleReq EXCEPT !.op = "delete", !.user = userId,
                                   !.input = UpdateInput(id, <<>>)]
           existingRingtone == SelectById(db, id)
       IN IF existingRingtone = {}
          THEN /\ UNCHANGED <<db, requested, createdOrder>>
               /\ Finish(r, [base EXCEPT !.message = <<"Ringtone not found">>],
                         ORPCError("NOT_FOUND"))
          ELSE IF DeleteForbidden(existingRingtone, userId)
          THEN /\ UNCHANGED <<db, requested, createdOrder>>
               /\ Finish(r, [base EXCEPT !.message =
                                <<"You can only delete your own ringtones">>],
                         ORPCError("FORBIDDEN"))
          ELSE LET ringtoneData == CHOOSE row \in existingRingtone : TRUE IN
               /\ db' = DeleteById(db, id)
               /\ requested' = [i \in DOMAIN requested \ {id} |-> requested[i]]
               /\ createdOrder' = SelectSeq(createdOrder, LAMBDA i : i # id)
               /\ req' = [req EXCEPT ![r] =
                            [base EXCEPT !.pc = "unlinking",
                                         !.downloadUrl = ringtoneData.downloadUrl,
                                         !.outputPath =
                                             DeleteFilePath(ringtoneData.downloadUrl)]]
    /\ UNCHANGED <<now, page, slider, variant, files, dirs, nextId, faults, updates>>

\* DeleteFile without the inner try/catch: a failing unlink fails the request
DeleteFileRethrows(r, unlinkOk) ==
    /\ req[r].op = "delete"
    /\ req[r].pc = "unlinking"
    /\ LET me    == req[r]
           there == Exists(files, me.outputPath)
           gone  == there /\ unlinkOk
       IN /\ there \/ unlinkOk
          /\ Fault(IF there /\ ~unlinkOk THEN 1 ELSE 0)
          /\ files' = IF gone THEN RemoveFile(files, me.outputPath) ELSE files
          /\ IF gone
             THEN Finish(r, [me EXCEPT !.removed = @ \cup {me.outputPath}], OkSuccess)
             ELSE Finish(r, me, ORPCError("INTERNAL_SERVER_ERROR"))
    /\ UNCHANGED <<now, createdOrder, page, slider, variant, db, dirs, nextId, updates, requested>>

\* try { await fs.unlink(filePath) } catch {} ; return { success: true }
DeleteFile(r, unlinkOk) ==
    /\ req[r].op = "delete"
    /\ req[r].pc = "unlinking"
    /\ LET me    == req[r]
           there == Exists(files, me.outputPath)
           gone  == there /\ unlinkOk
       IN /\ there \/ unlinkOk
          /\ Fault(IF there /\ ~unlinkOk THEN 1 ELSE 0)
          /\ files' = IF gone THEN RemoveFile(files, me.outputPath) ELSE files
          /\ Finish(r, [me EXCEPT !.removed = IF gone THEN @ \cup {me.outputPath} ELSE @],
                    OkSuccess)
    /\ UNCHANGED <<now, createdOrder, page, slider, variant, db, dirs, nextId, updates, requested>>

(***************************************************************************)
(* getAll                                                                  *)
(***************************************************************************)
OkList == [kind |-> "ok", code |-> "list", downloadUrl |-> <<>>]

\* .where(eq(ringtone.userId, userId))
SelectByUser(rows, userId) == { row \in rows : row.userId = userId }

\* the orders in which a set of rows can be listed
Orderings(rows) ==
    { s \in [1..Cardinality(rows) -> rows] :
         \A i, j \in 1..Cardinality(rows) : i # j => s[i] # s[j] }

\* .orderBy(desc(ringtone.createdAt)): rows with equal createdAt come in the
\* order the database happens to produce them
OrderByCreatedAtDesc(rows) ==
    { s \in Orderings(rows) :
         \A i, j \in 1..Len(s) : i < j => s[i].createdAt >= s[j].createdAt }

getRingtones(r, userId, userRingtones) ==
    /\ req[r].pc = "idle"
    /\ userRingtones \in OrderByCreatedAtDesc(SelectByUser(db, userId))
    /\ Finish(r, [IdleReq EXCEPT !.op = "getAll", !.user = userId,
                                 !.userRingtones = userRingtones,
                                 !.deleting =
                                     { req[s].input.id :
                                          s \in { t \in AllSlots :
                                                    /\ req[t].op = "delete"
                                                    /\ req[t].pc \in {"unlinking", "done"} } }],
              OkList)
    /\ UNCHANGED <<now, createdOrder, page, slider, variant, db, files, dirs, nextId, faults,
                   updates, requested>>

(***************************************************************************)
(* getVideoInfo                                                            *)
(***************************************************************************)
\* what yt-dlp --print prints for one field
Titles == { <<>>, <<"T">> }

DurationStrs == { <<>>, <<"4", "2">>, <<"0">>, <<"N", "A">>, <<"7", "s">>, <<"-", "3">> }

Uploaders == { <<>>, <<"U">> }

Thumbnails == { <<>>, <<"h">> }

\* the first n of the four fields
PrintedFields(n) ==
    { SubSeq(<<t, d, u, h>>, 1, n) :
         t \in Titles, d \in DurationStrs, u \in Uploaders, h \in Thumbnails }

\* every printed field is followed by a newline
RECURSIVE PrintLines(_)
PrintLines(fields) ==
    IF fields = <<>> THEN <<>>
    ELSE Head(fields) \o <<"\n">> \o PrintLines(Tail(fields))

\* yt-dlp prints between none and all four of the fields
Printed == UNION { PrintedFields(n) : n \in 0..4 }

IsWhiteSpace(c) == c \in {" ", "\n", "\t"}

RECURSIVE trimStart(_)
trimStart(s) ==
    IF s # <<>> /\ IsWhiteSpace(Head(s)) THEN trimStart(Tail(s)) ELSE s

RECURSIVE trimEnd(_)
trimEnd(s) ==
    IF s # <<>> /\ IsWhiteSpace(s[Len(s)]) THEN trimEnd(SubSeq(s, 1, Len(s) - 1)) ELSE s

\* String.prototype.trim
trim(s) == trimEnd(trimStart(s))

\* String.prototype.split("\n"): always at least one piece
RECURSIVE split(_)
split(s) ==
    IF \A i \in 1..Len(s) : s[i] # "\n" THEN <<s>>
    ELSE LET i == CHOOSE k \in 1..Len(s) :
                     s[k] = "\n" /\ \A j \in 1..(k - 1) : s[j] # "\n"
         IN <<SubSeq(s, 1, i - 1)>> \o split(SubSeq(s, i + 1, Len(s)))

\* const [title, durationStr, uploader, thumbnail] = lines; a missing element
\* is undefined
Element(lines, k) ==
    IF k <= Len(lines) THEN [present |-> TRUE, value |-> lines[k]]
    ELSE [present |-> FALSE, value |-> <<>>]

IsDigit(c) == c \in {"0", "1", "2", "3", "4", "5", "6", "7", "8", "9"}

DigitValue(c) == CHOOSE d \in 0..9 : DigitChar(d) = c

\* the value of the longest prefix of digits of s, after acc
RECURSIVE DigitsValue(_, _)
DigitsValue(s, acc) ==
    IF s # <<>> /\ IsDigit(Head(s))
    THEN DigitsValue(Tail(s), acc * 10 + DigitValue(Head(s)))
    ELSE acc

NaN == [nan |-> TRUE, value |-> 0]

\* Number.parseInt(x, 10): leading white space, an optional sign, digits;
\* undefined is parsed as the string "undefined"
parseInt(x) ==
    LET t      == trimStart(x.value)
        signed == t # <<>> /\ Head(t) \in {"-", "+"}
        digits == IF signed THEN Tail(t) ELSE t
    IN IF ~x.present \/ digits = <<>> \/ ~IsDigit(Head(digits)) THEN NaN
       ELSE [nan |-> FALSE,
             value |-> IF signed /\ Head(t) = "-" THEN 0 - DigitsValue(digits, 0)
                       ELSE DigitsValue(digits, 0)]

\* n || 0 (NaN and 0 are falsy)
OrZero(n) == IF n.nan \/ n.value = 0 THEN 0 ELSE n.value

\* x || fallback (undefined and "" are falsy)
OrString(x, fallback) == IF x.present /\ x.value # <<>> THEN x.value ELSE fallback

\* x || null
OrNull(x) ==
    IF x.present /\ x.value # <<>> THEN x ELSE [present |-> FALSE, value |-> <<>>]

\* the object getVideoInfo returns for what yt-dlp printed
ParseVideoInfo(stdout) ==
    LET lines == split(trim(stdout)) IN
    [title     |-> OrString(Element(lines, 1), <<"Unknown">>),
     duration  |-> OrZero(parseInt(Element(lines, 2))),
     thumbnail |-> OrNull(Element(lines, 4)),
     uploader  |-> OrString(Element(lines, 3), <<"Unknown">>)]

VideoInfoFailedMessage == <<"Could not fetch video information. Please check the URL.">>

\* the handler spawns yt-dlp --print ... --no-download url and awaits its exit
getVideoInfo(r, url) ==
    /\ req[r].pc = "idle"
    /\ req' = [req EXCEPT ![r] =
                 [IdleReq EXCEPT !.op = "getVideoInfo", !.pc = "fetching",
                                 !.input = [NoInput EXCEPT !.url = url],
                                 !.spawns = <<"yt-dlp">>]]
    /\ UNCHANGED <<now, createdOrder, page, slider, variant, db, files, dirs, nextId, faults, updates, requested>>

\* yt-dlp exited: BAD_REQUEST on a non-zero exit code, else the parsed fields
\* (routers/ringtone.ts throws an Error carrying exit code and stderr, logs
\* it in its catch block and raises the ORPCError; part_011 raises it directly)
VideoInfoExit(r, exitCode, stderr, fields) ==
    /\ req[r].op = "getVideoInfo"
    /\ req[r].pc = "fetching"
    /\ LET me  == [req[r] EXCEPT !.exits = Append(@, [tool |-> "yt-dlp",
                                                     exitCode |-> exitCode,
                                                     stderr |-> stderr]),
                                 !.printed = fields,
                                 !.stdout = PrintLines(fields)]
           err == IF variant = "ringtone_ts"
                  THEN ToolFailedError("yt-dlp failed with exit code ", exitCode, stderr)
                  ELSE <<>>
       IN IF exitCode # 0
          THEN Finish(r, [me EXCEPT !.failed = "yt-dlp", !.thrown = err, !.log = err,
                                    !.message = VideoInfoFailedMessage],
                      ORPCError("BAD_REQUEST"))
          ELSE Finish(r, [me EXCEPT !.info = ParseVideoInfo(me.stdout)], OkInfo)
    /\ UNCHANGED <<now, createdOrder, page, slider, variant, db, files, dirs, nextId, faults, updates, requested>>

(***************************************************************************)
(* The response leaves the server; the slot takes the next request         *)
(***************************************************************************)
Return(r) ==
    /\ req[r].pc \in {"done", "error"}
    /\ req' = [req EXCEPT ![r] = IdleReq]
    /\ UNCHANGED <<now, createdOrder, page, slider, variant, db, files, dirs, nextId, faults, updates, requested>>

(***************************************************************************)
(* Requests are served one after the other.  Time is counted in seconds:   *)
(* a second has passed when the next create request is accepted.           *)
(***************************************************************************)
Next ==
    \E r \in Slots :
        \/ \E c \in CreateRequests(variant, nextId) : CreateStart(r, c.user, c.input)
        \/ \E o \in ToolOutcomes, w \in ToolWrites(variant), k \in BOOLEAN :
              CreateDownload(r, o.exitCode, o.stderr, w, k)
        \/ \E o \in ToolOutcomes, w \in TrimWrites, k \in BOOLEAN :
              CreateTrim(r, o.exitCode, o.stderr, w, k)
        \/ \E ok \in BOOLEAN, k \in BOOLEAN : CreateInsert(r, ok, k)
        \/ \E q \in UpdateRequests : updateRingtone(r, q.user, q.id, q.fileName)
        \/ \E u \in Users, id \in Ids : DeleteRow(r, u, id)
        \/ \E k \in BOOLEAN : DeleteFile(r, k)
        \/ Return(r)

Spec == Init /\ [][Next]_vars

\* how yt-dlp --print ends: a failing run prints nothing on stdout, a
\* successful one its fields and nothing on stderr
InfoOutcomes ==
    { [exitCode |-> o.exitCode, stderr |-> o.stderr, fields |-> <<>>] :
         o \in { x \in ToolOutcomes : x.exitCode # 0 } } \cup
    { [exitCode |-> 0, stderr |-> "", fields |-> f] : f \in Printed }

\* the client's flow: fetch the video information, create ringtones
NextInfo ==
    \E r \in Slots :
        \/ getVideoInfo(r, TheUrl)
        \/ \E o \in InfoOutcomes : VideoInfoExit(r, o.exitCode, o.stderr, o.fields)
        \/ \E c \in CreateRequests(variant, nextId) : CreateStart(r, c.user, c.input)
        \/ \E o \in ToolOutcomes, w \in ToolWrites(variant), k \in BOOLEAN :
              CreateDownload(r, o.exitCode, o.stderr, w, k)
        \/ \E o \in ToolOutcomes, w \in TrimWrites, k \in BOOLEAN :
              CreateTrim(r, o.exitCode, o.stderr, w, k)
        \/ \E ok \in BOOLEAN, k \in BOOLEAN : CreateInsert(r, ok, k)
        \/ Return(r)

SpecInfo == Init /\ [][NextInfo]_vars

\* the subprocess the handler awaits never exits: `await proc.exited` (and the
\* reads of its pipes) never resolve, and no timer is armed on the spawn
SubprocessNeverExits(r) ==
    /\ req[r].pc \in {"fetching", "downloading", "trimming"}
    /\ req' = [req EXCEPT ![r].pc = "awaiting"]
    /\ UNCHANGED <<now, createdOrder, page, slider, variant, db, files, dirs, nextId, faults, updates, requested>>

NextLive == NextInfo \/ \E r \in Slots : SubprocessNeverExits(r)

\* the server takes every step it can take
SpecLive == Init /\ [][NextLive]_vars /\ WF_vars(NextLive)

\* a file name that climbs out of the caller's directory into the second
\* user's: "../u2/a" (the user id is the token the server itself writes)
TraversalName == <<".", ".", "/", "u2", "/", "a">>

\* the create requests that overlap: the first user sends the base request or
\* the climbing name, the second user the base request
ConcCreateRequests ==
    { [user |-> "u1", input |-> inp] :
         inp \in {BaseInput, [BaseInput EXCEPT !.fileName = TraversalName]} } \cup
    { [user |-> "u2", input |-> BaseInput] }

\* how a subprocess ends while requests overlap
ConcOutcomes == { o \in ToolOutcomes : o.exitCode \in {0, 1} /\ o.stderr = "" }

\* create requests overlap: each slot runs the handler, the steps of the two
\* interleave at the handler's awaits
NextRace ==
    \E r \in ConcSlots :
        \/ \E c \in ConcCreateRequests : CreateStart(r, c.user, c.input)
        \/ \E o \in ConcOutcomes : CreateDownload(r, o.exitCode, o.stderr, "audio", TRUE)
        \/ \E o \in ConcOutcomes : CreateTrim(r, o.exitCode, o.stderr, "audio", TRUE)
        \/ CreateInsert(r, TRUE, TRUE)
        \/ Return(r)

SpecRace == Init /\ [][NextRace]_vars

\* requests of every kind overlap
NextConc ==
    \E r \in ConcSlots :
        \/ \E c \in ConcCreateRequests : CreateStart(r, c.user, c.input)
        \/ \E o \in ConcOutcomes : CreateDownload(r, o.exitCode, o.stderr, "audio", TRUE)
        \/ \E o \in ConcOutcomes : CreateTrim(r, o.exitCode, o.stderr, "audio", TRUE)
        \/ CreateInsert(r, TRUE, TRUE)
        \/ \E u \in Users, id \in Ids : updateRingtone(r, u, id, <<"A">>)
        \/ \E u \in Users, id \in Ids : DeleteRow(r, u, id)
        \/ DeleteFile(r, TRUE)
        \/ \E u \in Users :
              \E l \in OrderByCreatedAtDesc(SelectByUser(db, u)) : getRingtones(r, u, l)
        \/ Return(r)

SpecConc == Init /\ [][NextConc]_vars

\* the tools and the database work; creates, deletes and listings overlap
NextDelete ==
    \E r \in ConcSlots :
        \/ \E u \in Users : CreateStart(r, u, BaseInput)
        \/ CreateDownload(r, 0, "", "audio", TRUE)
        \/ CreateTrim(r, 0, "", "audio", TRUE)
        \/ CreateInsert(r, TRUE, TRUE)
        \/ \E u \in Users, id \in Ids : DeleteRow(r, u, id)
        \/ DeleteFile(r, TRUE)
        \/ \E u \in Users :
              \E l \in OrderByCreatedAtDesc(SelectByUser(db, u)) : getRingtones(r, u, l)
        \/ Return(r)

SpecDelete == Init /\ [][NextDelete]_vars

\* a name of exactly the greatest length the schema lets through
FiftyName == [i \in 1..MaxFileNameLen |-> "a"]

\* the n-th create request of the record keeping run: the first user sends
\* the base request or the longest name, the second user may open the run
\* with the base request
CrudCreateRequests(n) ==
    { [user |-> "u1", input |-> inp] :
         inp \in {BaseInput, [BaseInput EXCEPT !.fileName = FiftyName]} } \cup
    { [user |-> "u2", input |-> inp] : inp \in IF n = 1 THEN {BaseInput} ELSE {} }

\* the update requests of that run: every user renames every record to the
\* base name, the first user also to the longest name
CrudUpdateRequests ==
    { [user |-> u, id |-> i, fileName |-> BaseInput.fileName] : u \in Users, i \in Ids } \cup
    { [user |-> "u1", id |-> i, fileName |-> FiftyName] : i \in Ids }

\* record keeping: requests one after the other, create, rename and delete;
\* a subprocess or the insert may fail, files are where the handlers put them
NextCrud ==
    \E r \in Slots :
        \/ \E c \in CrudCreateRequests(nextId) : CreateStart(r, c.user, c.input)
        \/ \E o \in ConcOutcomes : CreateDownload(r, o.exitCode, o.stderr, "audio", TRUE)
        \/ \E o \in ConcOutcomes : CreateTrim(r, o.exitCode, o.stderr, "audio", TRUE)
        \/ \E ok \in BOOLEAN : CreateInsert(r, ok, TRUE)
        \/ \E q \in CrudUpdateRequests : updateRingtone(r, q.user, q.id, q.fileName)
        \/ \E u \in Users, id \in Ids : DeleteRow(r, u, id)
        \/ DeleteFile(r, TRUE)
        \/ Return(r)

SpecCrud == Init /\ [][NextCrud]_vars

(***************************************************************************)
(* generateUniqueFileName on its own (part_011), called on a table that    *)
(* already holds records                                                   *)
(***************************************************************************)
\* a record as create stores it
StoredRow(id, userId, fileName) ==
    InsertDefaults([id |-> id, fileName |-> fileName, originalUrl |-> TheUrl,
                    startTime |-> BaseInput.startSeconds,
                    endTime |-> EndSeconds(BaseInput),
                    downloadUrl |-> DownloadUrl(userId, fileName, "mp3"),
                    userId |-> userId], 0)

\* `${baseName} ${counter}`
Suffixed(baseName, counter) == baseName \o <<" ">> \o NumberToString(counter)

\* the records the table may hold when the function is called
StoredCandidates ==
    { StoredRow(1, "u1", <<"a">>), StoredRow(2, "u1", <<"A">>),
      StoredRow(3, "u1", Suffixed(<<"a">>, 1)), StoredRow(4, "u1", Suffixed(<<"A">>, 1)),
      StoredRow(5, "u1", Suffixed(<<"a">>, 2)), StoredRow(6, "u1", <<"b">>),
      StoredRow(7, "u2", <<"a">>), StoredRow(8, "u2", Suffixed(<<"a">>, 1)),
      StoredRow(9, "u2", Suffixed(<<"a">>, 2)) }

BaseNames == { <<"a">>, <<"A">>, <<"b">> }

InitUnique ==
    /\ page = InitialPage
    /\ slider = NoSlider
    /\ variant = "part_011"
    /\ db \in SUBSET StoredCandidates
    /\ files = <<>>
    /\ dirs = {}
    /\ req = [r \in AllSlots |-> IdleReq]
    /\ nextId = 1
    /\ faults = 0
    /\ updates = 0
    /\ requested = <<>>
    /\ now = 0
    /\ createdOrder = <<>>

\* await generateUniqueFileName(baseName, userId)
CallGenerateUniqueFileName(r, baseName, userId) ==
    /\ req[r].pc = "idle"
    /\ Finish(r, [IdleReq EXCEPT !.op = "resolve", !.user = userId,
                                 !.input = UpdateInput(0, baseName),
                                 !.fileName = generateUniqueFileName(baseName, userId, db)],
              OkSuccess)
    /\ UNCHANGED <<now, createdOrder, page, slider, variant, db, files, dirs, nextId, faults,
                   updates, requested>>

NextUnique ==
    \E r \in Slots :
        \/ \E b \in BaseNames, u \in Users : CallGenerateUniqueFileName(r, b, u)
        \/ Return(r)

SpecUnique == InitUnique /\ [][NextUnique]_vars

\* one revision at a time
SpecRingtoneTs == (Init /\ variant = "ringtone_ts") /\ [][Next]_vars

SpecPart011 == (Init /\ variant = "part_011") /\ [][Next]_vars

(***************************************************************************)
(* The create page (apps/web/src/routes/index.tsx)                         *)
(***************************************************************************)
\* how many times the user changes the URL field in one run
MaxUrlChanges == 3

UrlA == <<"https://a.example/watch?v=a">>

UrlB == <<"https://b.example/watch?v=b">>

\* what the user leaves in the URL field
PageUrls == {<<>>, <<" ">>, <<"not a url">>, UrlA, UrlB}

\* new URL(url) throws
NewUrlThrows(url) == url \notin {UrlA, UrlB}

\* what getVideoInfo answers for a url it can fetch
VideoInfoFor(url) ==
    [NoInfo EXCEPT !.title = url, !.duration = IF url = UrlA THEN 100 ELSE 200]

\* setVideoUrl, form.setFieldValue("url", url); an empty field or a text that
\* is no URL clears videoInfo; otherwise a timer of 500 ms is set (nothing
\* clears it: the function the handler returns is dropped by the input's
\* onChange)
handleUrlChange(url) ==
    /\ page.changes < MaxUrlChanges
    /\ LET p1 == [page EXCEPT !.videoUrl = url, !.changes = @ + 1] IN
       page' = IF trim(url) = <<>> \/ NewUrlThrows(url)
               THEN [p1 EXCEPT !.videoInfo = NoPageInfo]
               ELSE [p1 EXCEPT !.pending =
                        @ \cup {[id |-> p1.changes, url |-> url, stage |-> "timer"]}]
    /\ UNCHANGED <<slider, serverVars>>

\* the timer of a change fires (timers of equal delay fire in the order they
\* were set): videoInfoMutation.mutateAsync({ url }) with the url of that change
TimeoutFires(q) ==
    /\ q \in page.pending
    /\ q.stage = "timer"
    /\ \A o \in page.pending : o.stage = "timer" => q.id <= o.id
    /\ page' = [page EXCEPT !.pending = (@ \ {q}) \cup {[q EXCEPT !.stage = "call"]}]
    /\ UNCHANGED <<slider, serverVars>>

\* the promise of one call settles: success sets videoInfo to the data,
\* error sets it to null
VideoInfoSettles(q, ok) ==
    /\ q \in page.pending
    /\ q.stage = "call"
    /\ page' = [page EXCEPT !.pending = @ \ {q},
                            !.videoInfo = IF ok
                                          THEN [present |-> TRUE, value |-> VideoInfoFor(q.url)]
                                          ELSE NoPageInfo]
    /\ UNCHANGED <<slider, serverVars>>

\* form.onSubmit: the create request carries the url of the field and
\* videoInfo?.duration (the submit button is shown only with a videoInfo)
onSubmit ==
    /\ page.videoInfo.present
    /\ page' = [page EXCEPT !.submitted =
                  [present |-> TRUE, url |-> page.videoUrl,
                   videoDuration |-> [present |-> TRUE,
                                      value |-> page.videoInfo.value.duration]]]
    /\ UNCHANGED <<slider, serverVars>>

NextPage ==
    \/ \E url \in PageUrls : handleUrlChange(url)
    \/ \E q \in page.pending : TimeoutFires(q)
    \/ \E q \in page.pending, ok \in BOOLEAN : VideoInfoSettles(q, ok)
    \/ onSubmit

SpecPage == Init /\ [][NextPage]_vars

(***************************************************************************)
(* TimeRangeSlider (components/time-picker.tsx, part_002)                  *)
(***************************************************************************)
SliderRevs == {"time_picker", "part_002"}

\* the video lengths the slider is mounted with
SliderDurations == {8, 62}

minDuration == 5

maxAllowedDuration == 60

Abs(x) == IF x < 0 THEN 0 - x ELSE x

Least(x, y) == IF x < y THEN x ELSE y

Greatest(x, y) == IF x > y THEN x ELSE y

\* the selection the page sets when videoInfo arrives: maxStart and
\* maxStart + defaultDuration
DefaultSelection(d) ==
    LET maxStart == Greatest(0, Least(d - 30, d \div 10))
        defaultDuration == Least(30, d - maxStart)
    IN <<maxStart, maxStart + defaultDuration>>

\* step of Slider.Root in tenths of a second: 1 in time-picker.tsx,
\* getStepSize() in part_002
StepTenths(rev, d) ==
    IF rev = "time_picker" THEN 10
    ELSE IF d <= 60 THEN 1
    ELSE IF d <= 300 THEN 5
    ELSE IF d <= 3600 THEN 10
    ELSE 10 * Greatest(1, d \div 10000)

\* what Slider.Root (min 0, max maxDuration, minStepsBetweenThumbs
\* minDuration) hands to its callbacks when one thumb is moved or let go: the
\* values shown with at most one of them changed, the thumbs in order and the
\* least number of steps apart; whole seconds only (the slider is not zoomed)
SliderInputs(rev, d, shown) ==
    { v \in { <<a, shown[2]>> : a \in 0..d } \cup { <<shown[1], b>> : b \in 0..d } :
         (v[2] - v[1]) * 10 >= minDuration * StepTenths(rev, d) }

\* Math.round on whole seconds
Round(x) == x

\* the pair handleValueChange passes to setLocalValues and onChange
AdjustedValues(newValues, localValues, maxDuration) ==
    LET s0 == Round(newValues[1])
        e0 == Round(newValues[2])
        m  == IF e0 - s0 < minDuration
              THEN IF Abs(s0 - localValues[1]) > Abs(e0 - localValues[2])
                   THEN <<s0, Least(maxDuration, s0 + minDuration)>>
                   ELSE <<Greatest(0, e0 - minDuration), e0>>
              ELSE <<s0, e0>>
    IN IF m[2] - m[1] > maxAllowedDuration
       THEN IF Abs(m[1] - localValues[1]) > Abs(m[2] - localValues[2])
            THEN <<m[1], Least(maxDuration, m[1] + maxAllowedDuration)>>
            ELSE <<Greatest(0, m[2] - maxAllowedDuration), m[2]>>
       ELSE m

\* the pair handleTrackClick works out for a click at clickValue
TrackClickValues(clickValue, localValues, maxDuration) ==
    IF Abs(clickValue - localValues[1]) <= Abs(clickValue - localValues[2])
    THEN LET e1 == IF localValues[2] - clickValue < minDuration
                   THEN Least(maxDuration, clickValue + minDuration)
                   ELSE localValues[2]
             e2 == IF e1 - clickValue > maxAllowedDuration
                   THEN Least(maxDuration, clickValue + maxAllowedDuration)
                   ELSE e1
         IN <<clickValue, e2>>
    ELSE LET s1 == IF clickValue - localValues[1] < minDuration
                   THEN Greatest(0, clickValue - minDuration)
                   ELSE localValues[1]
             s2 == IF clickValue - s1 > maxAllowedDuration
                   THEN Greatest(0, clickValue - maxAllowedDuration)
                   ELSE s1
         IN <<s2, clickValue>>

\* onChange(start, end): the page writes startSeconds and endSeconds, which
\* come back as startTime and endTime, and the effect copies them to
\* localValues
Emit(handler, values) ==
    /\ slider' = [slider EXCEPT !.handler = handler,
                                !.localValues = <<Round(values[1]), Round(values[2])>>,
                                !.onChange = [present |-> TRUE, start |-> values[1],
                                              end |-> values[2]]]
    /\ UNCHANGED <<page, serverVars>>

\* a slider mounted for a video of maxDuration seconds with the selection the
\* page chose
InitSlider ==
    /\ page = InitialPage
    /\ \E rev \in SliderRevs, d \in SliderDurations :
          slider = [NoSlider EXCEPT !.rev = rev, !.maxDuration = d,
                                    !.localValues = DefaultSelection(d)]
    /\ variant = "ringtone_ts"
    /\ db = {}
    /\ files = <<>>
    /\ dirs = {}
    /\ req = [r \in AllSlots |-> IdleReq]
    /\ nextId = 1
    /\ faults = 0
    /\ updates = 0
    /\ requested = <<>>
    /\ now = 0
    /\ createdOrder = <<>>

handleValueChange(newValues) ==
    Emit("handleValueChange",
         AdjustedValues(newValues, slider.localValues, slider.maxDuration))

handleValueCommit(newValues) ==
    Emit("handleValueCommit", <<Round(newValues[1]), Round(newValues[2])>>)

\* time-picker.tsx hands its pair to handleValueChange, part_002 rounds it and
\* calls onChange itself
handleTrackClick(clickValue) ==
    LET v == TrackClickValues(clickValue, slider.localValues, slider.maxDuration) IN
    IF slider.rev = "time_picker"
    THEN Emit("handleTrackClick",
              AdjustedValues(v, slider.localValues, slider.maxDuration))
    ELSE Emit("handleTrackClick", <<Round(v[1]), Round(v[2])>>)

NextSlider ==
    \/ \E v \in SliderInputs(slider.rev, slider.maxDuration, slider.localValues) :
          handleValueChange(v)
    \/ \E v \in SliderInputs(slider.rev, slider.maxDuration, slider.localValues) :
          handleValueCommit(v)
    \/ \E clickValue \in 0..slider.maxDuration : handleTrackClick(clickValue)

SpecSlider == InitSlider /\ [][NextSlider]_vars

(***************************************************************************)
(* Properties                                                              *)
(***************************************************************************)
\* .refine((name) => !/[<>:"/\\|?*]/.test(name)) of the web form
HasForbiddenChar(fileName) == \E i \in 1..Len(fileName) : fileName[i] \in ForbiddenChars

\* the step that takes a create request leaves it rejected with no side effect
RejectedBeforeSideEffects(r) ==
    /\ req'[r].pc = "error"
    /\ req'[r].result = ORPCError("BAD_REQUEST")
    /\ req'[r].spawns = <<>>
    /\ ~req'[r].madeDir
    /\ UNCHANGED <<db, files, dirs>>

\* slot r takes a request `op` in this step
Takes(r, op) == req[r].pc = "idle" /\ req'[r].op = op

\* C1: in ringtone.ts, when the downloader exits non-zero, the download is
\* empty or the transcoder exits non-zero, the create request ends in the
\* generic error, inserts no row, and none of the files it wrote (the output
\* file, the .trimmed.mp3 file) exists when it returns.
C1_ToolFailureLeavesNoFile ==
    \A r \in Slots :
        (/\ variant = "ringtone_ts"
         /\ req[r].op = "create"
         /\ req[r].failed \in {"yt-dlp", "empty", "ffmpeg"})
        => /\ req[r].pc = "error"
           /\ req[r].result = ORPCError("INTERNAL_SERVER_ERROR")
           /\ req[r].inserted = 0
           /\ SelectById(db, req[r].ringtoneId) = {}
           /\ \A p \in req[r].wrote : ~Exists(files, p)

\* C2: two records of one owner created one after the other from the same
\* requested fileName (and not renamed since) carry different fileNames.
C2_SameRequestedNameStoredApart ==
    \A x \in db : \A y \in db :
        (/\ updates = 0
         /\ x.id # y.id
         /\ x.userId = y.userId
         /\ requested[x.id] = requested[y.id])
        => x.fileName # y.fileName

\* C3: an update request that passes the input schema answers NOT_FOUND when
\* no record has the id and FORBIDDEN when the record belongs to another user,
\* and in both cases leaves the table (and the files) as they were.
C3_UpdateRejectsWithoutChange ==
    [][\A r \in Slots :
         (Takes(r, "update") /\ FileNameSchema(req'[r].input.fileName))
         => /\ (SelectById(db, req'[r].input.id) = {})
                 => (/\ req'[r].result = ORPCError("NOT_FOUND")
                     /\ UNCHANGED <<db, files>>)
            /\ (\E row \in db : row.id = req'[r].input.id /\ row.userId # req'[r].user)
                 => (/\ req'[r].result = ORPCError("FORBIDDEN")
                     /\ UNCHANGED <<db, files>>)]_vars

C3_Witness ==
    \E r \in Slots :
        /\ req[r].op = "update"
        /\ req[r].result = ORPCError("FORBIDDEN")
        /\ \E row \in db : row.id = req[r].input.id /\ row.userId # req[r].user

\* C4: a delete request answers NOT_FOUND for an absent id and FORBIDDEN for
\* a record of another user, removing no row and no file; a record leaves
\* the table only in the step of a delete request issued by its owner.
C4_OnlyOwnerDeleteRemoves ==
    [][/\ \A r \in Slots :
            Takes(r, "delete")
            => /\ (SelectById(db, req'[r].input.id) = {})
                    => (/\ req'[r].result = ORPCError("NOT_FOUND")
                        /\ req'[r].pc = "error"
                        /\ UNCHANGED <<db, files>>)
               /\ (\E row \in db : row.id = req'[r].input.id /\ row.userId # req'[r].user)
                    => (/\ req'[r].result = ORPCError("FORBIDDEN")
                        /\ req'[r].pc = "error"
                        /\ UNCHANGED <<db, files>>)
       /\ \A row \in db :
            (SelectById(db', row.id) = {})
            => \E r \in Slots : /\ Takes(r, "delete")
                                /\ req'[r].user = row.userId
                                /\ req'[r].input.id = row.id]_vars

C4_Witness ==
    \E r \in Slots :
        /\ req[r].op = "delete"
        /\ req[r].result = ORPCError("FORBIDDEN")
        /\ \E row \in db : /\ row.id = req[r].input.id
                           /\ row.userId # req[r].user
                           /\ Exists(files, DeleteFilePath(row.downloadUrl))

\* C5: a create request with durationSeconds below 5 or above 60, or with a
\* negative startSeconds, is rejected in the step that takes it: no
\* subprocess, no directory, no file, no row; and nothing follows.
OutOfRange(inp) ==
    \/ inp.durationSeconds < MinDuration
    \/ inp.durationSeconds > MaxDuration
    \/ inp.startSeconds < 0

C5_OutOfRangeRejectedFirst ==
    [][\A r \in Slots :
         /\ (Takes(r, "create") /\ OutOfRange(req'[r].input))
              => RejectedBeforeSideEffects(r)
         /\ (req[r].op = "create" /\ OutOfRange(req[r].input))
              => UNCHANGED <<db, files, dirs>>]_vars

C5_Witness ==
    \E r \in Slots :
        /\ req[r].op = "create"
        /\ req[r].input.durationSeconds > MaxDuration
        /\ req[r].pc = "error"

\* C6: a create request whose fileName contains one of < > : " / \ | ? * is
\* rejected by the server's input schema before any side effect.
C6_ForbiddenCharRejectedFirst ==
    [][\A r \in Slots :
         (Takes(r, "create") /\ HasForbiddenChar(req'[r].input.fileName))
         => RejectedBeforeSideEffects(r)]_vars

\* C7 as stated: whenever a videoDuration is supplied (0 included) and
\* startSeconds + durationSeconds exceeds it, the create request is rejected
\* with BAD_REQUEST before any side effect.
C7_SuppliedDurationExceeded ==
    [][\A r \in Slots :
         (/\ Takes(r, "create")
          /\ req'[r].input.videoDuration.present
          /\ req'[r].input.startSeconds + req'[r].input.durationSeconds
                > req'[r].input.videoDuration.value)
         => RejectedBeforeSideEffects(r)]_vars

\* C7 amended: whenever a non-zero videoDuration is supplied and
\* startSeconds + durationSeconds exceeds it, the create request is rejected
\* with BAD_REQUEST before any side effect.
C7_NonZeroDurationExceeded ==
    [][\A r \in Slots :
         (/\ Takes(r, "create")
          /\ req'[r].input.videoDuration.present
          /\ req'[r].input.videoDuration.value # 0
          /\ req'[r].input.startSeconds + req'[r].input.durationSeconds
                > req'[r].input.videoDuration.value)
         => RejectedBeforeSideEffects(r)]_vars

C7_Witness ==
    \E r \in Slots :
        /\ req[r].op = "create"
        /\ CreateSchema(req[r].input)
        /\ req[r].input.videoDuration.present
        /\ req[r].input.videoDuration.value > 0
        /\ req[r].input.startSeconds + req[r].input.durationSeconds
              > req[r].input.videoDuration.value
        /\ req[r].result = ORPCError("BAD_REQUEST")

\* C8: the delete of an existing record by its owner removes the row in the
\* step that takes the request, and the step that attempts the file removal
\* always ends it with { success: true } and the row still gone, whether the
\* file was there, was missing, or could not be removed.
C8_DeleteSucceedsWithoutFile ==
    [][\A r \in Slots :
         /\ (/\ Takes(r, "delete")
             /\ \E row \in db : row.id = req'[r].input.id /\ row.userId = req'[r].user)
              => (/\ SelectById(db', req'[r].input.id) = {}
                  /\ req'[r].pc = "unlinking")
         /\ (req[r].op = "delete" /\ req[r].pc = "unlinking" /\ req'[r] # req[r])
              => (/\ req'[r].pc = "done"
                  /\ req'[r].result = OkSuccess
                  /\ SelectById(db', req[r].input.id) = {})
         /\ (req'[r].op = "delete" /\ req'[r].pc = "error")
              => req'[r].result.code \in {"NOT_FOUND", "FORBIDDEN"}]_vars

C8_Witness ==
    \E r \in Slots :
        /\ req[r].op = "delete"
        /\ req[r].pc = "done"
        /\ req[r].result = OkSuccess
        /\ req[r].removed = {}
        /\ SelectById(db, req[r].input.id) = {}

\* C9: a create request that succeeds without a fileName collision (mp3
\* output) leaves a record with startTime = startSeconds, endTime =
\* startSeconds + durationSeconds, fileName = the requested name, userId =
\* the caller and downloadUrl = /downloads/{userId}/{fileName}.mp3, and
\* answers with that same downloadUrl.
NoCollision(r) ==
    \A row \in db :
        (row.userId = req[r].user /\ row.id # req[r].ringtoneId)
        => toLowerCase(row.fileName) # toLowerCase(req[r].input.fileName)

C9_RecordMatchesRequest ==
    \A r \in Slots :
        (/\ req[r].op = "create"
         /\ req[r].pc = "done"
         /\ req[r].input.audioFormat = "mp3"
         /\ NoCollision(r))
        => \E row \in db :
              /\ row.id = req[r].ringtoneId
              /\ row.startTime = req[r].input.startSeconds
              /\ row.endTime = req[r].input.startSeconds + req[r].input.durationSeconds
              /\ row.fileName = req[r].input.fileName
              /\ row.userId = req[r].user
              /\ row.downloadUrl = <<"/", "downloads", "/", req[r].user, "/">>
                                     \o req[r].input.fileName \o <<".", "mp3">>
              /\ req[r].result.downloadUrl = row.downloadUrl

C9_Witness ==
    \E r \in Slots :
        /\ req[r].op = "create"
        /\ req[r].pc = "done"
        /\ req[r].input.durationSeconds = MaxDuration
        /\ NoCollision(r)
        /\ SelectById(db, req[r].ringtoneId) # {}

\* C10: a create request answers { downloadUrl } exactly when it inserted
\* one row; it never inserts two, and one that ends in an error inserted none.
C10_SuccessIffOneRow ==
    \A r \in Slots :
        req[r].op = "create"
        => LET mine == SelectById(db, req[r].ringtoneId) IN
           /\ Cardinality(mine) <= 1
           /\ req[r].inserted <= 1
           /\ (req[r].result.kind = "ok") <=> (mine # {})
           /\ (req[r].result.kind = "ok") <=> (req[r].inserted = 1)
           /\ (req[r].pc = "error") => (mine = {} /\ req[r].inserted = 0)

C10_Witness ==
    \E r \in Slots :
        /\ req[r].op = "create"
        /\ req[r].result.kind = "ok"
        /\ req[r].inserted = 1
        /\ Cardinality(SelectById(db, req[r].ringtoneId)) = 1

\* C15: in every reachable table, whatever creates, updates and deletes came
\* before, every record has endTime > startTime, startTime >= 0 and
\* 5 <= endTime - startTime <= 60.
C15_StoredTimesInRange ==
    \A row \in db :
        /\ row.endTime > row.startTime
        /\ row.startTime >= 0
        /\ row.endTime - row.startTime >= MinDuration
        /\ row.endTime - row.startTime <= MaxDuration

C15_Witness ==
    /\ updates > 0
    /\ \E row \in db : row.endTime - row.startTime = MaxDuration
    /\ \E row \in db : row.endTime - row.startTime = MinDuration

\* C17: after a successful update, the renamed record's fileName differs,
\* compared case-insensitively, from the fileName of every other record of
\* the same owner.
C17_RenamedNameIsUnique ==
    \A r \in Slots :
        (req[r].op = "update" /\ req[r].pc = "done")
        => \A x \in SelectById(db, req[r].input.id) :
              \A y \in db :
                 (y.userId = x.userId /\ y.id # x.id)
                 => toLowerCase(y.fileName) # toLowerCase(x.fileName)

\* C19: in part_011, when the downloader or the transcoder exits non-zero,
\* the create request ends in the generic error, inserts no row, and none of
\* the files it wrote exists when it returns.
C19_Part011ToolFailureEndsInError ==
    \A r \in Slots :
        (/\ variant = "part_011"
         /\ req[r].op = "create"
         /\ req[r].failed \in {"yt-dlp", "ffmpeg"})
        => /\ req[r].pc = "error"
           /\ req[r].result = ORPCError("INTERNAL_SERVER_ERROR")
           /\ req[r].inserted = 0
           /\ SelectById(db, req[r].ringtoneId) = {}
           /\ \A p \in req[r].wrote : ~Exists(files, p)

\* C18: getVideoInfo answers BAD_REQUEST whenever yt-dlp exits non-zero; when
\* it exits 0 each printed field is mapped on its own: title is the first
\* field or "Unknown" when it is empty or missing, duration the integer
\* parsed from the second field or 0, uploader the third field or "Unknown",
\* thumbnail the fourth field or null.
C18_FieldsMappedIndependently ==
    \A r \in Slots :
        (req[r].op = "getVideoInfo" /\ req[r].exits # <<>>)
        => LET fields == req[r].printed IN
           IF req[r].exits[1].exitCode # 0
           THEN /\ req[r].pc = "error"
                /\ req[r].result = ORPCError("BAD_REQUEST")
           ELSE /\ req[r].pc = "done"
                /\ req[r].info.title = OrString(Element(fields, 1), <<"Unknown">>)
                /\ req[r].info.duration = OrZero(parseInt(Element(fields, 2)))
                /\ req[r].info.uploader = OrString(Element(fields, 3), <<"Unknown">>)
                /\ req[r].info.thumbnail = OrNull(Element(fields, 4))

\* C16: the error a client receives does not depend on the subprocess
\* diagnostic: every create request that fails on a subprocess (non-zero exit
\* of yt-dlp or ffmpeg, whatever the exit code and the stderr text) receives
\* INTERNAL_SERVER_ERROR with the one fixed message, and every failing
\* getVideoInfo receives BAD_REQUEST with its one fixed message.
C16_ErrorIndependentOfDiagnostic ==
    \A r \in Slots :
        /\ (/\ req[r].op = "create"
            /\ req[r].pc = "error"
            /\ req[r].failed \in {"yt-dlp", "ffmpeg"})
           => /\ req[r].result = ORPCError("INTERNAL_SERVER_ERROR")
              /\ req[r].message = CreateFailedMessage
        /\ (req[r].op = "getVideoInfo" /\ req[r].pc = "error")
           => /\ req[r].result = ORPCError("BAD_REQUEST")
              /\ req[r].message = VideoInfoFailedMessage

\* a create request that failed on exit code 2 with a diagnostic on stderr,
\* which the server logged
C16_Witness ==
    \E r \in Slots :
        /\ req[r].op = "create"
        /\ req[r].pc = "error"
        /\ req[r].failed = "ffmpeg"
        /\ req[r].exits[Len(req[r].exits)] =
              [tool |-> "ffmpeg", exitCode |-> 2, stderr |-> "ERROR: Video unavailable"]
        /\ req[r].log = ToolFailedError("ffmpeg trimming failed with exit code ", 2,
                                        "ERROR: Video unavailable")
        /\ req[r].message = CreateFailedMessage

\* C14: every subprocess of getVideoInfo and create is bounded by a timeout:
\* a request whose downloader or transcoder never exits still eventually
\* ends with an error.
C14_HungSubprocessEndsInError ==
    \A r \in Slots : (req[r].pc = "awaiting") ~> (req[r].pc = "error")

\* slot r spawns `tool` in this step
Spawns(r, tool) ==
    /\ Len(req'[r].spawns) > Len(req[r].spawns)
    /\ \E i \in (Len(req[r].spawns) + 1)..Len(req'[r].spawns) : req'[r].spawns[i] = tool

\* slot r inserts its row in this step
Inserts(r) == req'[r].op = "create" /\ req'[r].inserted > req[r].inserted

\* C20: every create request goes validating, downloading, trimming,
\* persisting, done: yt-dlp is spawned only after validation passed, ffmpeg
\* only after yt-dlp exited 0 and left a non-empty file, the row is inserted
\* only after ffmpeg exited 0 and the trimmed file replaced the download, the
\* success answer comes only with the insert, and a request in the error
\* state spawns and inserts nothing more.
C20_CreateFollowsTheOrder ==
    [][\A r \in Slots :
         /\ (req[r].op = "create" /\ req[r].pc = "error")
              => (/\ req'[r] \in {req[r], IdleReq}
                  /\ UNCHANGED <<db, files>>)
         /\ req'[r].op = "create" =>
           /\ Spawns(r, "yt-dlp")
                => /\ req[r].pc = "downloading"
                   /\ CreateSchema(req[r].input)
                   /\ ~EndExceedsVideo(req[r].input)
           /\ Spawns(r, "ffmpeg")
                => /\ req[r].pc = "trimming"
                   /\ req[r].exits # <<>>
                   /\ req[r].exits[1].tool = "yt-dlp"
                   /\ req[r].exits[1].exitCode = 0
                   /\ Exists(files, req[r].outputPath)
                   /\ files[req[r].outputPath] # "empty"
           /\ Inserts(r)
                => /\ req[r].pc = "persisting"
                   /\ Len(req[r].exits) = 2
                   /\ req[r].exits[2].tool = "ffmpeg"
                   /\ req[r].exits[2].exitCode = 0
                   /\ req[r].outputPath \in req[r].removed
                   /\ Exists(files, req[r].outputPath)
                   /\ ~Exists(files, req[r].trimmedPath)
           /\ (req'[r].pc = "done" /\ req[r].pc # "done")
                => (req[r].pc = "persisting" /\ Inserts(r))]_vars

\* the record with id a was inserted before the record with id b
CreatedBefore(a, b) ==
    \E i, j \in 1..Len(createdOrder) :
        i < j /\ createdOrder[i] = a /\ createdOrder[j] = b

\* C11: getAll returns exactly the records whose userId is the caller's (all
\* of them, none of another user), and lists them in the order of their
\* creation, the newest first.
C11_GetAllOwnNewestFirst ==
    [][\A r \in ConcSlots :
         Takes(r, "getAll") =>
           LET l == req'[r].userRingtones IN
           /\ { l[i] : i \in 1..Len(l) } = { row \in db : row.userId = req'[r].user }
           /\ \A i, j \in 1..Len(l) :
                 i < j => (l[i] # l[j] /\ CreatedBefore(l[j].id, l[i].id))]_vars

\* C12: in part_011 a create that is accepted while another create of the
\* same owner with the same requested name is in flight and has not inserted
\* is not held back and does not see the other's name: with no record of that
\* name stored, it resolves the requested name itself, the same name and the
\* same output path as the request in flight.
C12_OverlappingCreatesResolveAlike ==
    [][\A r1, r2 \in ConcSlots :
         ( /\ r1 # r2
           /\ variant = "part_011"
           /\ Takes(r1, "create")
           /\ req'[r1].pc = "downloading"
           /\ req[r2].op = "create"
           /\ req[r2].pc \in {"downloading", "trimming", "persisting"}
           /\ req[r2].user = req'[r1].user
           /\ req[r2].input.fileName = req'[r1].input.fileName
           /\ req[r2].fileName = req[r2].input.fileName
           /\ \A row \in db :
                 row.userId = req'[r1].user
                    => toLowerCase(row.fileName) # toLowerCase(req'[r1].input.fileName) )
         => /\ req'[r1].fileName = req[r2].fileName
            /\ req'[r1].outputPath = req[r2].outputPath]_vars

\* two records of one owner, created by requests with the same requested
\* name, carry the same fileName in part_011
C12_Witness ==
    /\ variant = "part_011"
    /\ \E x, y \in db :
          /\ x.id # y.id
          /\ x.userId = y.userId
          /\ x.fileName = y.fileName
          /\ x.id \in DOMAIN requested /\ y.id \in DOMAIN requested
          /\ requested[x.id] = requested[y.id]

\* the paths request r has written, renamed onto or deleted so far
Touched(r) == req[r].wrote \cup req[r].removed

InFlight(r) == req[r].pc \in {"downloading", "trimming", "persisting"}

\* C13: two accepted create requests of different users that are in flight
\* together have touched no file path in common, whatever fileName they carry.
C13_DifferentUsersTouchDisjointPaths ==
    \A r1, r2 \in ConcSlots :
        ( /\ r1 # r2
          /\ req[r1].op = "create" /\ InFlight(r1)
          /\ req[r2].op = "create" /\ InFlight(r2)
          /\ req[r1].user # req[r2].user )
        => Touched(r1) \cap Touched(r2) = {}

\* C22: a delete request that has got past its checks has removed the row
\* before it attempts to remove the file, so a getAll that runs while the
\* delete is in flight (file about to be removed or removed already) does
\* not return that record.
C22_DeletedRowNotListed ==
    [][\A r2 \in ConcSlots :
         (req'[r2].op = "delete" /\ req'[r2].pc \in {"unlinking", "done"}) =>
            /\ \A row \in db' : row.id # req'[r2].input.id
            /\ \A r \in ConcSlots :
                  (r # r2 /\ Takes(r, "getAll")) =>
                     \A i \in 1..Len(req'[r].userRingtones) :
                         req'[r].userRingtones[i].id # req'[r2].input.id]_vars

\* a getAll of the owner ran after the in-flight delete had removed the file
\* of the record, and listed another record of the owner
C22_Witness ==
    \E r, r2 \in ConcSlots :
        /\ req[r].op = "getAll" /\ req[r].pc = "done"
        /\ req[r2].op = "delete" /\ req[r2].pc = "done" /\ req[r2].removed # {}
        /\ req[r2].user = req[r].user
        /\ req[r2].input.id \in req[r].deleting
        /\ req[r].userRingtones # <<>>

\* row2 is row with at most its fileName and updatedAt changed
SameButNameAndUpdatedAt(row, row2) ==
    row2 = [row EXCEPT !.fileName = row2.fileName, !.updatedAt = row2.updatedAt]

\* C23: a stored record changes only in a step of a successful update of that
\* record, and such a step changes nothing but the record's fileName and
\* updatedAt: the record's other columns, the other records and the files stay
\* as they are.
C23_UpdateChangesNameOnly ==
    [][/\ \A row \in db, row2 \in db' :
             (row2.id = row.id /\ row2 # row) =>
                \E r \in Slots : /\ Takes(r, "update")
                                 /\ req'[r].pc = "done"
                                 /\ req'[r].input.id = row.id
       /\ \A r \in Slots :
             (Takes(r, "update") /\ req'[r].pc = "done") =>
                /\ UNCHANGED <<files, dirs>>
                /\ { row.id : row \in db' } = { row.id : row \in db }
                /\ \A row \in db, row2 \in db' :
                      row2.id = row.id =>
                         IF row.id = req'[r].input.id
                         THEN SameButNameAndUpdatedAt(row, row2)
                         ELSE row2 = row]_vars

\* a successful update has given a record a new name and a later updatedAt,
\* with another record and files present
C23_Witness ==
    \E r \in Slots, row \in db :
        /\ req[r].op = "update" /\ req[r].pc = "done"
        /\ row.id = req[r].input.id
        /\ row.fileName = req[r].fileName
        /\ row.fileName # requested[row.id]
        /\ row.updatedAt > row.createdAt
        /\ \E other \in db : other.id # row.id
        /\ files # <<>>

\* C24: with requests served one after the other, no two stored records have
\* the same downloadUrl; renaming a record and creating a new ringtone under
\* the old name does not make two records point at one file (part_011).
C24_DownloadUrlsDistinct ==
    variant = "part_011" =>
       \A x, y \in db : x.id # y.id => x.downloadUrl # y.downloadUrl

\* C25: in ringtone.ts every stored record's downloadUrl points to a file
\* that exists, whatever creates (failing ones too), updates and deletes were
\* served.
C25_StoredRecordHasItsFile ==
    variant = "ringtone_ts" =>
       \A row \in db : Exists(files, DeleteFilePath(row.downloadUrl))

\* C26: the fileName of every stored record is 1 to 50 characters long, names
\* made by the collision resolution of create and update included.
C26_StoredNameLength ==
    \A row \in db : FileNameSchema(row.fileName)

\* C27: when the owner updates a record with the fileName the record has, and
\* no other record of the owner has that name, the record keeps its fileName.
C27_UpdateWithOwnNameKeepsIt ==
    [][\A r \in Slots, row \in db :
         ( /\ Takes(r, "update")
           /\ req'[r].pc = "done"
           /\ row.id = req'[r].input.id
           /\ row.fileName = req'[r].input.fileName
           /\ \A other \in db :
                 (other.id # row.id /\ other.userId = row.userId)
                    => toLowerCase(other.fileName) # toLowerCase(row.fileName) )
         => \E row2 \in db' : row2.id = row.id /\ row2.fileName = row.fileName]_vars

\* C28 as stated: in ringtone.ts, a create whose insert failed returns with
\* none of the files it wrote on disk.
C28_InsertFailureLeavesNoFile ==
    \A r \in Slots :
        (/\ variant = "ringtone_ts"
         /\ req[r].op = "create"
         /\ req[r].failed = "insert")
        => \A p \in req[r].wrote : ~Exists(files, p)

\* C28: in ringtone.ts, a create whose insert failed ends in the generic
\* INTERNAL_SERVER_ERROR and stores no row; when the unlink of the output
\* file in the catch block succeeded, none of the files the request wrote is
\* on disk, and when it failed the output file stays.
C28_InsertFailureCleansUp ==
    \A r \in Slots :
        (/\ variant = "ringtone_ts"
         /\ req[r].op = "create"
         /\ req[r].failed = "insert")
        => /\ req[r].pc = "error"
           /\ req[r].result = ORPCError("INTERNAL_SERVER_ERROR")
           /\ req[r].message = CreateFailedMessage
           /\ req[r].inserted = 0
           /\ SelectById(db, req[r].ringtoneId) = {}
           /\ IF ~req[r].cleanupError
              THEN \A p \in req[r].wrote : ~Exists(files, p)
              ELSE Exists(files, req[r].outputPath)

C28_Witness ==
    \E r \in Slots :
        /\ variant = "ringtone_ts"
        /\ req[r].op = "create"
        /\ req[r].failed = "insert"
        /\ req[r].pc = "error"
        /\ req[r].outputPath \in req[r].wrote
        /\ ~req[r].cleanupError

\* C29: on the create page, once no getVideoInfo call of a URL change is
\* outstanding, the videoInfo the page holds is the answer for the URL in the
\* field, and so is the videoDuration a submit then carries.
C29_VideoInfoIsForCurrentUrl ==
    (page.pending = {} /\ page.videoInfo.present)
    => page.videoInfo.value = VideoInfoFor(page.videoUrl)

\* C30: every pair the slider passes to onChange lies within the video and
\* spans between minDuration and maxAllowedDuration seconds.
C30_OnChangeWithinLimits ==
    (slider.onChange.present /\ slider.maxDuration >= minDuration)
    => /\ 0 <= slider.onChange.start
       /\ slider.onChange.end <= slider.maxDuration
       /\ slider.onChange.end - slider.onChange.start >= minDuration
       /\ slider.onChange.end - slider.onChange.start <= maxAllowedDuration

\* a record of `userId` carries `name`, letter case aside
Taken(name, userId) ==
    \E row \in db : row.userId = userId /\ toLowerCase(row.fileName) = toLowerCase(name)

\* C21: generateUniqueFileName returns the base name when the owner has no
\* record of that name (letter case aside); otherwise the base name followed
\* by " k" for the smallest k >= 1 that is free for the owner; the result is
\* never a name the owner has, and records of other owners play no part.
C21_UniqueNameIsSmallestFree ==
    \A r \in Slots :
        (req[r].op = "resolve" /\ req[r].pc = "done") =>
          LET baseName == req[r].input.fileName
              userId   == req[r].user
              name     == req[r].fileName
          IN /\ ~Taken(baseName, userId) => name = baseName
             /\ Taken(baseName, userId) =>
                  \E k \in 1..(Cardinality(db) + 1) :
                      /\ name = Suffixed(baseName, k)
                      /\ \A j \in 1..(k - 1) : Taken(Suffixed(baseName, j), userId)
             /\ ~Taken(name, userId)
             /\ name = generateUniqueFileName(baseName, userId, SelectByUser(db, userId))

\* the owner has the base name and its first suffix, so the second suffix is
\* returned, although another owner has a record of that very name
C21_Witness ==
    \E r \in Slots :
        /\ req[r].op = "resolve" /\ req[r].pc = "done"
        /\ req[r].fileName = Suffixed(req[r].input.fileName, 2)
        /\ \E row \in db : row.userId # req[r].user /\ row.fileName = req[r].fileName

====
